---- MODULE Spec2Model ----
(***************************************************************************)
(* Infinigrid: the per-frame scene update of GameScene (wall spawner,      *)
(* collision monitor, world scroller, cleanup) together with the keyboard  *)
(* and the VR ship controllers.                                            *)
(*                                                                         *)
(* Units.  float32/float64 quantities are kept in exact fixed point:       *)
(*   lengths  in 1/1000 world unit   (z = 212.5  is 212500),               *)
(*   time     in milliseconds        (frameDelta = 0.1 is 100),            *)
(*   angles   in pi/16000 radians    (pi/4 is 4000, pi/8 is 2000),         *)
(*   controller orientation components in tenths (1.0 is 10),              *)
(*   game time and the bombs' curve offsets in units of pi/2 seconds.      *)
(* Every product the code forms is an integer in these units for the frame *)
(* deltas and orientations drawn below; float32 rounding is not modelled.  *)
(***************************************************************************)
EXTENDS Integers, Sequences, FiniteSets, TLC

\* ------------------------------------------------------------------ bounds
MaxFrames == 3
MaxInputFrames == 2
NumWallColliders == 2
NumShipColliders == 1

\* frame deltas (ms) the main loop may measure
FrameDeltas == {100, 1000, 8496, 8500}

\* frame deltas (ms) handed to an input system on its own
InputFrameDeltas == {0, 100, 1000, 8500}

\* ------------------------------------------------------- program constants
gameStatePlaying == 1
gameStatePlayerDied == 2

playerEntityName == "Player"
playerShipEntityName == "PlayerShip"

shipMoveSpeed == 20
maxRollRads == 4000
maxPitchRads == 2000
\* kbRollPitchSpeedF = 1.5, kept in tenths
kbRollPitchSpeedF == 15

gridSegmentLength == 25000
spawnDistance == 200000 + (gridSegmentLength \div 2)
rearCutoff == -200000
firstWallZ == 12500
lastWallZ == 212500
shipSpeedZ == 25
\* const moveSpeed of VRInputSystem.movePlayer
moveSpeed == 20

VARIABLES
    shouldClose,        \* GameScene.ShouldClose: main leaves its loop
    timeSinceLastSpawn, \* GameScene.timeSinceLastSpawn of the timed wall spawner, in ms
    drawn,              \* the entity locations the render system drew in its last Update
    currentGameTime,    \* GameScene.currentGameTime, in units of pi/2 seconds
    mode,               \* the systems registered: "forward" (forward renderer,
                        \* keyboard, UI), "vr" (VR renderer, VR input), "vrui"
                        \* (VR renderer, VR input, UI), "none" (no renderer)
    assets,             \* the shader and the component files that can be loaded
    setupErr,           \* SetupScene has returned an error
    refs,               \* the entity references the systems cache (0 = nil)
    callbacks,          \* the callback fields of VRInputSystem that are set
    called,             \* the callbacks the last VRInputSystem.Update invoked,
                        \* each with the controller (1 or 2) it was invoked for
    pc,                 \* position of main: "setup" | "loop" | "exit"; "scroll"
                        \* or "axis" when entity methods or the trackpad
                        \* callback are driven on their own
    ents,               \* BasicSceneManager entities: ID -> entity record
    nextID,             \* BasicSceneManager.GetNextID counter
    shipID,             \* GameScene.shipEntity   (0 = nil)
    playerID,           \* GameScene.playerEntity (0 = nil)
    currentShipRoll,    \* ShipEntity.currentShipRoll
    currentShipPitch,   \* ShipEntity.currentShipPitch
    currentShipSpeed,   \* ShipEntity.currentShipSpeed
    currentFrameDelta,  \* GameScene.currentFrameDelta
    kbFrameDelta,       \* KeyboardInputSystem.frameDelta
    lastGridSpawn,      \* GameScene.lastGridSpawn
    distanceTravelled,  \* GameScene.distanceTravelled
    gameState,          \* GameScene.gameState (0 before SetupScene)
    uiVisible,          \* UISystem.visible
    quitMenus,          \* number of windows UISystem.ShowQuitMenu has created
    faulted,            \* the process has panicked
    frames,             \* number of frames the main loop has run
    keysDown,           \* keyboard: the directional keys held during the last frame
    controller,         \* VR: the controller sample of the last frame
    frameHit            \* the collider geometry of the last frame had an obstacle/ship overlap

vars == <<shouldClose, timeSinceLastSpawn, drawn, currentGameTime, mode, assets, setupErr, refs, callbacks, called, pc, ents, nextID, shipID, playerID, currentShipRoll,
          currentShipPitch, currentShipSpeed, currentFrameDelta, kbFrameDelta,
          lastGridSpawn, distanceTravelled, gameState, uiVisible, quitMenus,
          faulted, frames, keysDown, controller, frameHit>>

\* ------------------------------------------------------------- vector math
Vec3Add(a, b) == <<a[1] + b[1], a[2] + b[2], a[3] + b[3]>>

\* v (units/s) scaled by t (ms), result in 1/1000 unit
Vec3Mul(v, t) == <<v[1] * t, v[2] * t, v[3] * t>>

Clamp(a, low, high) == IF a < low THEN low ELSE IF a > high THEN high ELSE a

\* qRoll.Mul(qPitch): the rotation is determined by the two angles
QuatRollPitch(roll, pitch) == <<roll, pitch>>

\* --------------------------------------------------------------- entities
NewVisibleEntity(prefix, n, loc, ncol) ==
    [name |-> <<prefix, n>>, type |-> "VisibleEntity", loc |-> loc,
     orient |-> QuatRollPitch(0, 0), ncol |-> ncol]

NewShipEntity(loc, ncol) ==
    [name |-> <<playerShipEntityName, 0>>, type |-> "ShipEntity", loc |-> loc,
     orient |-> QuatRollPitch(0, 0), ncol |-> ncol]

AddEntity(E, id, e) == [i \in DOMAIN E \cup {id} |-> IF i = id THEN e ELSE E[i]]

RemoveEntities(E, ids) == [i \in DOMAIN E \ ids |-> E[i]]

SetLocation(E, id, loc) == [E EXCEPT ![id].loc = loc]

EmptyScene == [i \in {} |-> 0]

\* the initial wall segments: for z := 12.5; z <= 212.5; z += 25.0
RECURSIVE InitialWalls(_, _, _, _)
InitialWalls(E, id, z, ncol) ==
    IF z > lastWallZ THEN E
    ELSE InitialWalls(
            AddEntity(E, id, NewVisibleEntity("GridProto_pre", z \div 1000,
                                              <<0, 0, z>>, ncol)),
            id + 1, z + gridSegmentLength, ncol)

NumInitialWalls == ((lastWallZ - firstWallZ) \div gridSegmentLength) + 1

\* ------------------------------------------------------ keyboard controller
DirectionKeys == {"A", "D", "W", "S"}

handleRollLeftV(roll, v, frameDelta) ==
    Clamp(roll + ((-v) * maxRollRads * frameDelta * kbRollPitchSpeedF) \div 10000,
          -maxRollRads, maxRollRads)

\* (variant: the roll-right handler adds its nudge without clamping)
handleRollRightVUnclamped(roll, v, frameDelta) ==
    roll + (v * maxRollRads * frameDelta * kbRollPitchSpeedF) \div 10000

handleRollRightV(roll, v, frameDelta) ==
    Clamp(roll + (v * maxRollRads * frameDelta * kbRollPitchSpeedF) \div 10000,
          -maxRollRads, maxRollRads)

handlePitchDownV(pitch, v, frameDelta) ==
    Clamp(pitch + (v * maxPitchRads * frameDelta * kbRollPitchSpeedF) \div 10000,
          -maxPitchRads, maxPitchRads)

handlePitchUpV(pitch, v, frameDelta) ==
    Clamp(pitch + ((-v) * maxPitchRads * frameDelta * kbRollPitchSpeedF) \div 10000,
          -maxPitchRads, maxPitchRads)

\* (variant: the pitch-up key nudges the roll as well)
KeyHandlerCrossAxis(key, rp, frameDelta) ==
    CASE key = "A" -> <<handleRollLeftV(rp[1], 1, frameDelta), rp[2]>>
      [] key = "D" -> <<handleRollRightV(rp[1], 1, frameDelta), rp[2]>>
      [] key = "W" -> <<handleRollLeftV(rp[1], 1, frameDelta),
                        handlePitchUpV(rp[2], 1, frameDelta)>>
      [] key = "S" -> <<rp[1], handlePitchDownV(rp[2], 1, frameDelta)>>

\* the callback Initialize binds to a key, applied to <<roll, pitch>>
KeyHandler(key, rp, frameDelta) ==
    CASE key = "A" -> <<handleRollLeftV(rp[1], 1, frameDelta), rp[2]>>
      [] key = "D" -> <<handleRollRightV(rp[1], 1, frameDelta), rp[2]>>
      [] key = "W" -> <<rp[1], handlePitchUpV(rp[2], 1, frameDelta)>>
      [] key = "S" -> <<rp[1], handlePitchDownV(rp[2], 1, frameDelta)>>

\* kbModel.CheckKeyPresses: the handlers of the pressed keys, in the order keySeq
RECURSIVE CheckKeyPresses(_, _, _)
CheckKeyPresses(keySeq, rp, frameDelta) ==
    IF keySeq = <<>> THEN rp
    ELSE CheckKeyPresses(Tail(keySeq), KeyHandler(Head(keySeq), rp, frameDelta),
                         frameDelta)

\* the ship's drift: shipLoc[0] -= shipMoveSpeed * rollRatio * frameDelta, same for y
MoveShip(loc, roll, pitch, frameDelta, speed) ==
    <<loc[1] - (speed * roll * frameDelta) \div maxRollRads,
      loc[2] - (speed * pitch * frameDelta) \div maxPitchRads,
      loc[3]>>

\* KeyboardInputSystem.Update: [ents, roll, pitch] after the system ran
KeyboardInputSystemUpdate(E, roll, pitch, frameDelta, keySeq, ship) ==
    LET rp == CheckKeyPresses(keySeq, <<roll, pitch>>, frameDelta)
        oriented == [E EXCEPT ![ship].orient = QuatRollPitch(rp[1], rp[2])]
    IN  [ents |-> SetLocation(oriented, ship,
                              MoveShip(E[ship].loc, rp[1], rp[2], frameDelta,
                                       shipMoveSpeed)),
         roll |-> rp[1], pitch |-> rp[2]]

\* every order in which the handlers of a set of held keys can be invoked
RECURSIVE Orders(_)
Orders(K) ==
    IF K = {} THEN {<<>>}
    ELSE UNION {{<<k>> \o s : s \in Orders(K \ {k})} : k \in K}

\* ------------------------------------------------------------ VR controller
\* what the VR runtime reports in one frame: whether a first connected
\* controller is found, its forward direction's x and z (tenths) and its menu
\* and grip buttons; whether a second connected controller is found and its
\* buttons; the HMD location; the trackpad axis of the first controller (tenths)
NoController == [connected |-> FALSE, ox |-> 0, oz |-> 0, menu |-> FALSE,
                 grip |-> FALSE, connected2 |-> FALSE, menu2 |-> FALSE,
                 grip2 |-> FALSE, hmd |-> <<0, 0, 0>>, axisX |-> 0, axisY |-> 0]

\* a frame with one connected controller
OneController(ox, oz, menu, hmd) ==
    [NoController EXCEPT !.connected = TRUE, !.ox = ox, !.oz = oz, !.menu = menu,
                         !.hmd = hmd]

\* the offset HandleHeadAutoLevel and movePlayer glue the anchor at
HMDOffset(hmdLoc) == <<0 - hmdLoc[1], 200 - hmdLoc[2], -500 - hmdLoc[3]>>

\* VRInputSystem.HandleHeadAutoLevel
HandleHeadAutoLevel(E, hmdLoc, ship, player) ==
    SetLocation(E, player, Vec3Add(E[ship].loc, HMDOffset(hmdLoc)))

\* (variant: the sampled orientation is added to the angles of the last frame)
movePlayerAccumulating(E, frameDelta, c, ship, player) ==
    LET rollInput == IF c.connected THEN c.ox ELSE 0
        pitchInput == IF c.connected THEN c.oz ELSE 0
        roll == currentShipRoll + ((-rollInput) * maxRollRads) \div 10
        pitch == currentShipPitch + (pitchInput * maxPitchRads) \div 10
        oriented == [E EXCEPT ![ship].orient = QuatRollPitch(roll, pitch)]
        moved == SetLocation(oriented, ship,
                             MoveShip(E[ship].loc, roll, pitch, frameDelta,
                                      moveSpeed))
    IN  [ents |-> SetLocation(moved, player,
                              Vec3Add(moved[ship].loc, HMDOffset(c.hmd))),
         roll |-> roll, pitch |-> pitch]

\* VRInputSystem.movePlayer
movePlayer(E, frameDelta, c, ship, player) ==
    LET rollInput == IF c.connected THEN c.ox ELSE 0
        pitchInput == IF c.connected THEN c.oz ELSE 0
        roll == ((-rollInput) * maxRollRads) \div 10
        pitch == (pitchInput * maxPitchRads) \div 10
        oriented == [E EXCEPT ![ship].orient = QuatRollPitch(roll, pitch)]
        moved == SetLocation(oriented, ship,
                             MoveShip(E[ship].loc, roll, pitch, frameDelta,
                                      moveSpeed))
    IN  [ents |-> SetLocation(moved, player,
                              Vec3Add(moved[ship].loc, HMDOffset(c.hmd))),
         roll |-> roll, pitch |-> pitch]

\* ---------------------------------------------------- systems and the host
\* the systems registered with the scene manager, by GetName
Systems ==
    CASE mode = "forward" -> {"RenderSystem", "KeyboardInputSystem", "UserInterface"}
      [] mode = "vr" -> {"VRRenderSystem", "VRInputSystem"}
      [] mode = "vrui" -> {"VRRenderSystem", "VRInputSystem", "UserInterface"}
      [] OTHER -> {}

\* GetSystemByName(uiSystemName) finds a system
UISystemRegistered == "UserInterface" \in Systems

\* (variant: SetupScene does not look for a render system)
RenderSystemAssumed == TRUE

\* SetupScene finds a render system
RenderSystemRegistered == "VRRenderSystem" \in Systems \/ "RenderSystem" \in Systems

\* the files SetupScene loads: the basic shader and the two component files
AllAssets == {"Basic", "entity/ship", "grid/proto"}

\* no system has cached an entity
NoRefs == [kbShip |-> 0, vrShip |-> 0, vrPlayer |-> 0, fwdShip |-> 0,
           fwdPlayer |-> 0, vrrPlayer |-> 0]

IsPlayer(e) == e.name = <<playerEntityName, 0>>

IsPlayerShip(e) == e.name = <<playerShipEntityName, 0>>

\* KeyboardInputSystem.OnAddEntity
KeyboardOnAddEntity(R, id, e) ==
    IF IsPlayerShip(e) THEN [R EXCEPT !.kbShip = id] ELSE R

\* KeyboardInputSystem.OnRemoveEntity
KeyboardOnRemoveEntity(R, e) ==
    IF IsPlayerShip(e) THEN [R EXCEPT !.kbShip = 0] ELSE R

\* VRInputSystem.OnAddEntity
VRInputOnAddEntity(R, id, e) ==
    IF IsPlayer(e) THEN [R EXCEPT !.vrPlayer = id]
    ELSE IF IsPlayerShip(e) THEN [R EXCEPT !.vrShip = id]
    ELSE R

\* VRInputSystem.OnRemoveEntity
VRInputOnRemoveEntity(R, e) ==
    IF IsPlayer(e) THEN [R EXCEPT !.vrPlayer = 0]
    ELSE IF IsPlayerShip(e) THEN [R EXCEPT !.vrShip = 0]
    ELSE R

\* ForwardRenderSystem.OnAddEntity (every entity of the game is a RenderableEntity)
ForwardOnAddEntity(R, id, e) ==
    IF IsPlayer(e) THEN [R EXCEPT !.fwdPlayer = id]
    ELSE IF IsPlayerShip(e) THEN [R EXCEPT !.fwdShip = id]
    ELSE R

\* ForwardRenderSystem.OnRemoveEntity
ForwardOnRemoveEntity(R, e) ==
    IF IsPlayer(e) THEN [R EXCEPT !.fwdPlayer = 0]
    ELSE IF IsPlayerShip(e) THEN [R EXCEPT !.fwdShip = 0]
    ELSE R

\* VRRenderSystem.OnAddEntity
VRRenderOnAddEntity(R, id, e) ==
    IF IsPlayer(e) THEN [R EXCEPT !.vrrPlayer = id] ELSE R

\* VRRenderSystem.OnRemoveEntity: the entity leaves visibleEntities, nothing else
VRRenderOnRemoveEntity(R, e) == R

\* BasicSceneManager.AddEntity tells every registered system
NotifyAdd(R, id, e) ==
    LET Kb(r) == IF "KeyboardInputSystem" \in Systems THEN KeyboardOnAddEntity(r, id, e)
                 ELSE r
        VRIn(r) == IF "VRInputSystem" \in Systems THEN VRInputOnAddEntity(r, id, e)
                   ELSE r
        Fwd(r) == IF "RenderSystem" \in Systems THEN ForwardOnAddEntity(r, id, e) ELSE r
        VRRen(r) == IF "VRRenderSystem" \in Systems THEN VRRenderOnAddEntity(r, id, e)
                    ELSE r
    IN  VRRen(Fwd(VRIn(Kb(R))))

\* BasicSceneManager.RemoveEntity tells every registered system
NotifyRemove(R, e) ==
    LET Kb(r) == IF "KeyboardInputSystem" \in Systems THEN KeyboardOnRemoveEntity(r, e)
                 ELSE r
        VRIn(r) == IF "VRInputSystem" \in Systems THEN VRInputOnRemoveEntity(r, e)
                   ELSE r
        Fwd(r) == IF "RenderSystem" \in Systems THEN ForwardOnRemoveEntity(r, e) ELSE r
        VRRen(r) == IF "VRRenderSystem" \in Systems THEN VRRenderOnRemoveEntity(r, e)
                    ELSE r
    IN  VRRen(Fwd(VRIn(Kb(R))))

\* the scene as the operations below pass it on: the entity collection, the
\* fields of GameScene and of the ship, and the references the systems cache
World ==
    [ents |-> ents, nextID |-> nextID, shipID |-> shipID, playerID |-> playerID,
     roll |-> currentShipRoll, pitch |-> currentShipPitch,
     speed |-> currentShipSpeed, lastGridSpawn |-> lastGridSpawn,
     distanceTravelled |-> distanceTravelled, gameState |-> gameState,
     refs |-> refs, called |-> <<>>, faulted |-> faulted,
     shouldClose |-> shouldClose]

\* e.ID = s.GetNextID(); s.AddEntity(e)
SceneAdd(W, e) ==
    [W EXCEPT !.ents = AddEntity(@, W.nextID, e),
              !.nextID = @ + 1,
              !.refs = NotifyAdd(@, W.nextID, e)]

\* s.RemoveEntity(e) for every id of ids
RECURSIVE SceneRemove(_, _)
SceneRemove(W, ids) ==
    IF ids = {} THEN W
    ELSE LET id == CHOOSE i \in ids : \A j \in ids : i <= j
         IN  SceneRemove([W EXCEPT !.ents = RemoveEntities(@, {id}),
                                   !.refs = NotifyRemove(@, W.ents[id])],
                         ids \ {id})

\* (variant: the player anchor is created at the ship's location)
SetupEntitiesAnchorAtShip(W, A, tolerated) ==
    LET first == W.nextID
        sid == first + NumInitialWalls
        shipLoc == <<0, 2000, 0>>
        w1 == [W EXCEPT !.ents = InitialWalls(@, first, firstWallZ, NumWallColliders),
                        !.nextID = sid]
        w2 == [SceneAdd(w1, NewShipEntity(shipLoc, NumShipColliders))
                  EXCEPT !.shipID = sid, !.roll = 0, !.pitch = 0,
                         !.speed = <<0, 0, shipSpeedZ>>]
        w3 == [SceneAdd(w2, NewVisibleEntity(playerEntityName, 0, shipLoc, 0))
                  EXCEPT !.playerID = sid + 1]
    IN  [w3 EXCEPT !.gameState = gameStatePlaying]

\* the entities SetupScene creates: the walls, the ship and the player anchor.
\* A is the set of loaded components. The errors of LoadComponentFromFile and
\* GetComponent are dropped, so a missing component is used as a nil
\* *component.Component by code outside these sources: either that panics at
\* the first use, or it is tolerated and the entity gets no colliders.
SetupEntities(W, A, tolerated) ==
    LET first == W.nextID
        sid == first + NumInitialWalls
        shipLoc == <<0, 2000, 0>>
        wallCols == IF "grid/proto" \in A THEN NumWallColliders ELSE 0
        shipCols == IF "entity/ship" \in A THEN NumShipColliders ELSE 0
        w1 == [W EXCEPT !.ents = InitialWalls(@, first, firstWallZ, wallCols),
                        !.nextID = sid]
        w2 == [SceneAdd(w1, NewShipEntity(shipLoc, shipCols))
                  EXCEPT !.shipID = sid, !.roll = 0, !.pitch = 0,
                         !.speed = <<0, 0, shipSpeedZ>>]
        w3 == [SceneAdd(w2, NewVisibleEntity(playerEntityName, 0,
                                             Vec3Add(shipLoc, <<0, 200, -250>>), 0))
                  EXCEPT !.playerID = sid + 1]
    IN  IF "grid/proto" \notin A /\ ~tolerated THEN [W EXCEPT !.faulted = TRUE]
        ELSE IF "entity/ship" \notin A /\ ~tolerated THEN [w1 EXCEPT !.faulted = TRUE]
        ELSE [w3 EXCEPT !.gameState = gameStatePlaying]

\* GameScene.ResetScene: every entity of the ended run is removed, the distance
\* accumulators are zeroed and the entities of SetupScene are created again
ResetScene(W) ==
    LET cleared == SceneRemove(W, DOMAIN W.ents)
    IN  SetupEntities([cleared EXCEPT !.lastGridSpawn = 0, !.distanceTravelled = 0],
                      assets, TRUE)

\* ---------------------------------------------------- VR input system update
\* the callback fields of VRInputSystem
CallbackNames ==
    {"OnAppMenuButtonL", "OnAppMenuButtonR", "OnGripButtonL", "OnGripButtonR",
     "OnControllerAxisUpdateL", "OnControllerAxisUpdateR"}

\* main sets OnAppMenuButtonL = HandleMenuButtonInput and nothing else
MainCallbacks == {"OnAppMenuButtonL"}

\* if foundLeft && s.On...R != nil { s.On...R() } else if s.On...L != nil { s.On...L() }
CallbackChoice(left, right, foundLeft, cb) ==
    IF foundLeft /\ right \in cb THEN <<right>>
    ELSE IF left \in cb THEN <<left>>
    ELSE <<>>

\* one iteration of the loop of Update: the callbacks invoked for controller n
ControllerCalls(n, menu, grip, cb) ==
    LET foundLeft == n = 2
        names == (IF menu THEN CallbackChoice("OnAppMenuButtonL", "OnAppMenuButtonR",
                                              foundLeft, cb) ELSE <<>>)
                 \o (IF grip THEN CallbackChoice("OnGripButtonL", "OnGripButtonR",
                                                 foundLeft, cb) ELSE <<>>)
                 \o CallbackChoice("OnControllerAxisUpdateL", "OnControllerAxisUpdateR",
                                   foundLeft, cb)
    IN  [i \in 1..Len(names) |-> <<names[i], n>>]

\* the loop of Update over the tracked devices: it ends after the second
\* connected controller
DispatchCalls(c, cb) ==
    IF ~c.connected THEN <<>>
    ELSE ControllerCalls(1, c.menu, c.grip, cb)
         \o (IF c.connected2 THEN ControllerCalls(2, c.menu2, c.grip2, cb) ELSE <<>>)

\* VRInputSystem.HandleHeadAutoLevel on the cached references
HeadAutoLevel(W, hmdLoc) ==
    IF W.refs.vrPlayer = 0 \/ W.refs.vrShip = 0 THEN [W EXCEPT !.faulted = TRUE]
    ELSE [W EXCEPT !.ents = HandleHeadAutoLevel(@, hmdLoc, W.refs.vrShip,
                                                W.refs.vrPlayer)]

\* (variant: the menu button auto-levels in every state)
HandleMenuButtonInputAlwaysLevels(W, hmdLoc) == HeadAutoLevel(W, hmdLoc)

\* GameScene.ResetScene returns an error: its setup fails where SetupScene's
\* does, at the shader, with A the assets that can be loaded now
ResetSceneFails(A) == "Basic" \notin A

\* VRInputSystem.HandleMenuButtonInput
HandleMenuButtonInput(W, hmdLoc) ==
    IF W.gameState = gameStatePlayerDied
    THEN IF ResetSceneFails(assets) THEN [W EXCEPT !.shouldClose = TRUE]
         ELSE ResetScene(W)
    ELSE HeadAutoLevel(W, hmdLoc)

\* the callbacks of one Update in the order they are invoked; OnAppMenuButtonL
\* is HandleMenuButtonInput, the other callbacks belong to the host
RECURSIVE RunCallbacks(_, _, _)
RunCallbacks(calls, W, hmdLoc) ==
    IF calls = <<>> \/ W.faulted THEN W
    ELSE RunCallbacks(Tail(calls),
                      IF Head(calls)[1] = "OnAppMenuButtonL"
                      THEN HandleMenuButtonInput(W, hmdLoc) ELSE W,
                      hmdLoc)

\* VRInputSystem.Update
VRInputSystemUpdate(W, frameDelta, c) ==
    LET \* the part of Update after the loop, w1 being the scene the callbacks left
        AfterCallbacks(w1) ==
            IF w1.faulted \/ w1.gameState = gameStatePlayerDied THEN w1
            ELSE IF w1.refs.vrShip = 0 \/ w1.refs.vrPlayer = 0
                 THEN [w1 EXCEPT !.faulted = TRUE]
            ELSE LET m == movePlayer(w1.ents, frameDelta, c, w1.refs.vrShip,
                                     w1.refs.vrPlayer)
                 IN  [w1 EXCEPT !.ents = m.ents, !.roll = m.roll, !.pitch = m.pitch]
    IN  AfterCallbacks([RunCallbacks(DispatchCalls(c, callbacks), W, c.hmd)
                           EXCEPT !.called = DispatchCalls(c, callbacks)])

\* KeyboardInputSystem.Update on the cached ship reference
KeyboardSystemUpdate(W, frameDelta, keySeq) ==
    IF W.refs.kbShip = 0 THEN [W EXCEPT !.faulted = TRUE]
    ELSE LET k == KeyboardInputSystemUpdate(W.ents, W.roll, W.pitch, frameDelta,
                                            keySeq, W.refs.kbShip)
         IN  [W EXCEPT !.ents = k.ents, !.roll = k.roll, !.pitch = k.pitch]

\* ------------------------------------------------------------- game scene
\* ForwardRenderSystem.Update / VRRenderSystem.Update: the registered render
\* system draws every entity of E at its current location; D is what it drew
\* the last time. Its priority (100) puts it after the input system (-100).
RenderSystemUpdate(E, D) ==
    IF RenderSystemRegistered THEN [id \in DOMAIN E |-> E[id].loc] ELSE D

\* BasicSceneManager.Update: the input system that is registered runs (the
\* render and UI systems draw and change nothing of the scene)
SystemsUpdate(W, frameDelta, keySeq, c) ==
    IF "KeyboardInputSystem" \in Systems THEN KeyboardSystemUpdate(W, frameDelta, keySeq)
    ELSE IF "VRInputSystem" \in Systems THEN VRInputSystemUpdate(W, frameDelta, c)
    ELSE W

\* (variant: the spawner fires when the accumulator has reached the segment length)
SpawnNewWallsAtThreshold(E, id, lgs, travelled) ==
    IF lgs >= gridSegmentLength
    THEN [ents |-> AddEntity(E, id,
                      NewVisibleEntity("GridProto_", travelled \div 1000,
                                       <<0, 0, spawnDistance>>, NumWallColliders)),
          nextID |-> id + 1, lastGridSpawn |-> 0]
    ELSE [ents |-> E, nextID |-> id, lastGridSpawn |-> lgs]

\* GameScene.SpawnNewWalls: [ents, nextID, lastGridSpawn] after the call
SpawnNewWalls(E, id, lgs, travelled) ==
    IF lgs > gridSegmentLength
    THEN [ents |-> AddEntity(E, id,
                      NewVisibleEntity("GridProto_", travelled \div 1000,
                                       <<0, 0, spawnDistance>>, NumWallColliders)),
          nextID |-> id + 1, lastGridSpawn |-> 0]
    ELSE [ents |-> E, nextID |-> id, lastGridSpawn |-> lgs]

\* a collider is <<entity ID, index into CoarseColliders>>; `hits' is the set of
\* pairs of distinct colliders that overlap in this frame's geometry
Collide(a, b, hits) == a = b \/ <<a, b>> \in hits \/ <<b, a>> \in hits

\* (variant: the scroller skips the ship only)
SkipShipOnly(id, ship, player) == id = ship

\* (variant: the scroller skips the player anchor only)
SkipPlayerOnly(id, ship, player) == id = player

\* the entities the collision pass and the scroller skip
SkipEntity(id, ship, player) == id = ship \/ id = player

\* (variant: the pass looks at the first collider of each entity only)
CollisionFoundFirstColliderOnly(E, hits, ship, player) ==
    \E id \in DOMAIN E :
        /\ id # ship /\ id # player
        /\ E[id].type = "VisibleEntity"
        /\ E[id].ncol >= 1
        /\ \E j \in 1..E[ship].ncol : Collide(<<id, 1>>, <<ship, j>>, hits)

\* the collision pass of Update: collisionFound after MapEntities (the breaks
\* leave the loops of one entity; the flag is set once any pair intersects)
CollisionFound(E, hits, ship, player) ==
    \E id \in DOMAIN E :
        /\ ~SkipEntity(id, ship, player)
        /\ E[id].type = "VisibleEntity"
        /\ \E i \in 1..E[id].ncol : \E j \in 1..E[ship].ncol :
              Collide(<<id, i>>, <<ship, j>>, hits)

\* the collision pass followed test by test. st.found is collisionFound;
\* st.after records that glider.Collide was called when collisionFound was
\* already set.
\* the inner loop for collider i of entity id, from ship collider j on; it
\* breaks at the first pair that intersects
RECURSIVE InnerTests(_, _, _, _, _, _, _)
InnerTests(E, hits, ship, id, i, j, st) ==
    IF j > E[ship].ncol THEN st
    ELSE IF Collide(<<id, i>>, <<ship, j>>, hits)
    THEN [found |-> TRUE, after |-> st.after \/ st.found]
    ELSE InnerTests(E, hits, ship, id, i, j + 1,
                    [found |-> st.found, after |-> st.after \/ st.found])

\* the loop over the colliders of entity id, from collider i on:
\* `if collisionFound { break }' comes after the inner loop has run
RECURSIVE OuterTests(_, _, _, _, _, _)
OuterTests(E, hits, ship, id, i, st) ==
    IF i > E[id].ncol THEN st
    ELSE LET st1 == InnerTests(E, hits, ship, id, i, 1, st)
         IN  IF st1.found THEN st1
             ELSE OuterTests(E, hits, ship, id, i + 1, st1)

\* the callback of MapEntities over the entities order[k], order[k + 1], ...,
\* the order in which the scene manager hands them out
RECURSIVE ScanTests(_, _, _, _, _, _, _)
ScanTests(E, hits, ship, player, order, k, st) ==
    IF k > Len(order) THEN st
    ELSE IF SkipEntity(order[k], ship, player) \/ E[order[k]].type # "VisibleEntity"
    THEN ScanTests(E, hits, ship, player, order, k + 1, st)
    ELSE LET st1 == OuterTests(E, hits, ship, order[k], 1, st)
         IN  ScanTests(E, hits, ship, player, order, k + 1,
                       [found |-> st1.found, after |-> st1.after])

\* a pair was tested after a pair that intersects, in the pass over order
TestedAfterHit(E, hits, ship, player, order) ==
    ScanTests(E, hits, ship, player, order, 1, [found |-> FALSE, after |-> FALSE]).after

\* the entities by ascending and by descending ID
RECURSIVE Ascending(_)
Ascending(S) ==
    IF S = {} THEN <<>>
    ELSE LET lo == CHOOSE i \in S : \A j \in S : i <= j
         IN  <<lo>> \o Ascending(S \ {lo})

RECURSIVE Descending(_)
Descending(S) ==
    IF S = {} THEN <<>>
    ELSE LET hi == CHOOSE i \in S : \A j \in S : i >= j
         IN  <<hi>> \o Descending(S \ {hi})

\* the orders in which MapEntities may hand out the entities
ScanOrders(E) == {Ascending(DOMAIN E), Descending(DOMAIN E)}

\* the scroller's treatment of one entity: its new location
ScrollEntity(e, backwardSpeed) ==
    LET loc == Vec3Add(e.loc, backwardSpeed)
    IN  IF e.name[1] = "GridFloor"
        THEN IF loc[3] < -1000 THEN <<loc[1], loc[2], loc[3] + 1000>> ELSE loc
        ELSE loc

\* (variant: the scroller skips the player anchor only)
ScrollAllButPlayer(E, backwardSpeed, ship, player) ==
    [id \in DOMAIN E |->
        IF id = player THEN E[id]
        ELSE [E[id] EXCEPT !.loc = ScrollEntity(E[id], backwardSpeed)]]

\* (variant: an entity is taken out of the collection as soon as it crosses the
\* cutoff, and the traversal passes over the entity listed after it)
ScrollAllRemovingInPlace(E, backwardSpeed, ship, player) ==
    [id \in DOMAIN E |->
        IF \/ SkipEntity(id, ship, player)
           \/ /\ id - 1 \in DOMAIN E
              /\ ~SkipEntity(id - 1, ship, player)
              /\ ScrollEntity(E[id - 1], backwardSpeed)[3] < rearCutoff
        THEN E[id]
        ELSE [E[id] EXCEPT !.loc = ScrollEntity(E[id], backwardSpeed)]]

\* the scroller pass of Update over all entities
ScrollAll(E, backwardSpeed, ship, player) ==
    [id \in DOMAIN E |->
        IF SkipEntity(id, ship, player) THEN E[id]
        ELSE [E[id] EXCEPT !.loc = ScrollEntity(E[id], backwardSpeed)]]

\* (variant: an entity exactly at the cutoff is removed too)
WallsToRemoveInclusive(E, ship, player) ==
    {id \in DOMAIN E : /\ ~SkipEntity(id, ship, player)
                       /\ E[id].name[1] # "GridFloor"
                       /\ E[id].loc[3] <= rearCutoff}

\* (variant: no entity is collected for removal)
WallsToRemoveNone(E, ship, player) == {}

\* wallsToRemove, given the entities after the scroller moved them
WallsToRemove(E, ship, player) ==
    {id \in DOMAIN E : /\ ~SkipEntity(id, ship, player)
                       /\ E[id].name[1] # "GridFloor"
                       /\ E[id].loc[3] < rearCutoff}

\* what this frame's geometry says: some collider of an entity other than the
\* ship overlaps a ship collider
ObstacleOverlap(E, hits, ship, player) ==
    \E p \in hits : \E q \in {p, <<p[2], p[1]>>} :
        /\ q[1][1] \in DOMAIN E \ {ship, player}
        /\ q[2][1] = ship

\* ------------------------------------------------------------------ inputs
\* the colliders of the entities the geometry can bring into overlap
CollidersOf(E, id) == {<<id, i>> : i \in 1..E[id].ncol}

\* the overlaps one frame's geometry may show: none, one obstacle collider with
\* one ship collider, or two colliders of one obstacle with each other
HitChoices(E, ship) ==
    {{}}
    \cup {{<<a, b>>} : a \in UNION {CollidersOf(E, id) : id \in DOMAIN E \ {ship}},
                       b \in CollidersOf(E, ship)}
    \cup {{<<<<id, 1>>, <<id, 2>>>>} : id \in {i \in DOMAIN E \ {ship} : E[i].ncol >= 2}}

\* key presses offered to a whole scene frame (one order each)
SceneKeySeqs == {<<>>, <<"A", "S">>}

\* controller samples offered to a whole scene frame
SceneSamples ==
    {NoController,
     OneController(6, -8, TRUE, <<0, 1200, 100>>)}

\* ------------------------------------------------------------------ actions
\* the fields of the systems, the scene and the ship after construction
InitSystems ==
    /\ shouldClose = FALSE
    /\ timeSinceLastSpawn = 0
    /\ drawn = <<>>
    /\ setupErr = FALSE
    /\ refs = NoRefs
    /\ called = <<>>
    /\ shipID = 0
    /\ playerID = 0
    /\ currentShipRoll = 0
    /\ currentShipPitch = 0
    /\ currentFrameDelta = 0
    /\ kbFrameDelta = 0
    /\ lastGridSpawn = 0
    /\ distanceTravelled = 0
    /\ gameState = 0
    /\ uiVisible = FALSE
    /\ quitMenus = 0
    /\ faulted = FALSE
    /\ frames = 0
    /\ keysDown = {}
    /\ controller = NoController
    /\ frameHit = FALSE

\* the state after NewGameScene and the construction of the systems
InitState ==
    /\ currentGameTime = 0
    /\ pc = "setup"
    /\ ents = EmptyScene
    /\ nextID = 1
    /\ currentShipSpeed = <<0, 0, 0>>
    /\ InitSystems

\* main: the flag -vr chooses the systems; the assets are in place
Init ==
    /\ mode \in {"forward", "vr"}
    /\ assets = AllAssets
    /\ callbacks = IF "VRInputSystem" \in Systems THEN MainCallbacks ELSE {}
    /\ InitState

\* the scene and the ship take the values of w
SetWorld(w) ==
    /\ ents' = w.ents
    /\ nextID' = w.nextID
    /\ shipID' = w.shipID
    /\ playerID' = w.playerID
    /\ currentShipRoll' = w.roll
    /\ currentShipPitch' = w.pitch
    /\ currentShipSpeed' = w.speed
    /\ lastGridSpawn' = w.lastGridSpawn
    /\ distanceTravelled' = w.distanceTravelled
    /\ gameState' = w.gameState
    /\ refs' = w.refs
    /\ faulted' = w.faulted

\* GameScene.SetupScene as main calls it; main returns when it fails
SetupScene ==
    /\ pc = "setup"
    /\ ~faulted
    /\ IF ~RenderSystemRegistered \/ "Basic" \notin assets
       THEN \* "Need to add a render System implementation first", or the
            \* error of createShaders
            /\ setupErr' = TRUE
            /\ pc' = "exit"
            /\ UNCHANGED <<ents, nextID, shipID, playerID, currentShipRoll,
                           currentShipPitch, currentShipSpeed, lastGridSpawn,
                           distanceTravelled, gameState, refs, faulted>>
       ELSE \E tolerated \in BOOLEAN :
            \E w \in {SetupEntities(World, assets, tolerated)} :
                /\ SetWorld(w)
                /\ setupErr' = FALSE
                /\ pc' = IF w.faulted THEN "exit" ELSE "loop"
    /\ UNCHANGED currentGameTime
    /\ UNCHANGED drawn
    /\ UNCHANGED timeSinceLastSpawn
    /\ UNCHANGED shouldClose
    /\ UNCHANGED <<mode, assets, callbacks, called, currentFrameDelta, kbFrameDelta,
                   uiVisible, quitMenus, frames, keysDown, controller, frameHit>>

\* (variant: the menu window is not created)
ShowQuitMenuNoWindow(n) == n

\* UISystem.ShowQuitMenu: one more "Menu" window in the UI manager
ShowQuitMenu(n) == n + 1

\* (variant: Update without its early return)
PlayerIsDeadIgnored(gs) == FALSE

\* the early return of Update: "if the player is dead we don't do anything"
PlayerIsDead(gs) == gs = gameStatePlayerDied

\* the outcomes the collision pass can have over the geometries of one frame:
\* what the pass finds, and what the geometry says
ScanOutcomes(E, ship, player) ==
    {[found |-> CollisionFound(E, hits, ship, player),
      overlap |-> ObstacleOverlap(E, hits, ship, player)] :
        hits \in HitChoices(E, ship)}

\* GameScene.Update(frameDelta), one iteration of main's loop, in a run of at
\* most limit iterations; scan is the outcome of the collision pass under this
\* frame's geometry
UpdateWithin(limit, frameDelta, keySeq, c) ==
    /\ pc = "loop"
    /\ ~faulted
    /\ frames < limit
    /\ frames' = frames + 1
    /\ currentFrameDelta' = frameDelta
    /\ kbFrameDelta' = IF "KeyboardInputSystem" \in Systems THEN frameDelta
                       ELSE kbFrameDelta
    /\ keysDown' = {keySeq[i] : i \in 1..Len(keySeq)}
    /\ controller' = c
    /\ \* sys: the scene after the systems ran; sp: after SpawnNewWalls
       \E sys \in {SystemsUpdate(World, frameDelta, keySeq, c)} :
       \E sp \in {SpawnNewWalls(sys.ents, sys.nextID, sys.lastGridSpawn,
                                sys.distanceTravelled)} :
       LET dist == Vec3Mul(sys.speed, frameDelta)[3]
           backwardSpeed == Vec3Mul(sys.speed, -frameDelta)
           scrolled == ScrollAll(sp.ents, backwardSpeed, sys.shipID, sys.playerID)
       IN  /\ currentShipRoll' = sys.roll
           /\ currentShipPitch' = sys.pitch
           /\ currentShipSpeed' = sys.speed
           /\ shipID' = sys.shipID
           /\ playerID' = sys.playerID
           /\ refs' = sys.refs
           /\ called' = sys.called
           /\ shouldClose' = sys.shouldClose
           /\ drawn' = IF sys.faulted THEN drawn ELSE RenderSystemUpdate(sys.ents, drawn)
           /\ IF sys.faulted
              THEN \* an input system has panicked
                   /\ faulted' = TRUE
                   /\ ents' = sys.ents
                   /\ nextID' = sys.nextID
                   /\ lastGridSpawn' = sys.lastGridSpawn
                   /\ distanceTravelled' = sys.distanceTravelled
                   /\ gameState' = sys.gameState
                   /\ UNCHANGED <<uiVisible, quitMenus, frameHit>>
              ELSE IF PlayerIsDead(sys.gameState)
              THEN /\ ents' = sys.ents
                   /\ \E scan \in ScanOutcomes(sys.ents, sys.shipID, sys.playerID) :
                         frameHit' = scan.overlap
                   /\ nextID' = sys.nextID
                   /\ lastGridSpawn' = sys.lastGridSpawn
                   /\ distanceTravelled' = sys.distanceTravelled
                   /\ gameState' = sys.gameState
                   /\ UNCHANGED <<uiVisible, quitMenus, faulted>>
              ELSE \E scan \in ScanOutcomes(sp.ents, sys.shipID, sys.playerID) :
                   \* collisionFound && s.gameState != gameStatePlayerDied
                   LET found == scan.found /\ sys.gameState # gameStatePlayerDied IN
                   /\ frameHit' = scan.overlap
                   /\ nextID' = sp.nextID
                   /\ IF found /\ ~UISystemRegistered
                      THEN \* system.(*UISystem) on a nil system panics
                           /\ gameState' = gameStatePlayerDied
                           /\ faulted' = TRUE
                           /\ ents' = sp.ents
                           /\ lastGridSpawn' = sp.lastGridSpawn
                           /\ distanceTravelled' = sys.distanceTravelled
                           /\ UNCHANGED <<uiVisible, quitMenus>>
                      ELSE /\ gameState' = IF found THEN gameStatePlayerDied
                                           ELSE sys.gameState
                           /\ uiVisible' = (found \/ uiVisible)
                           /\ quitMenus' = IF found THEN ShowQuitMenu(quitMenus) ELSE quitMenus
                           /\ faulted' = FALSE
                           \* no return after the transition: the frame goes on
                           /\ lastGridSpawn' = sp.lastGridSpawn + dist
                           /\ distanceTravelled' = sys.distanceTravelled + dist
                           /\ ents' = RemoveEntities(scrolled,
                                         WallsToRemove(scrolled, sys.shipID, sys.playerID))
    /\ UNCHANGED currentGameTime
    /\ UNCHANGED timeSinceLastSpawn
    /\ UNCHANGED <<mode, assets, setupErr, callbacks, pc>>

\* GameScene.Update(frameDelta) in the runs of MaxFrames iterations
Update(frameDelta, keySeq, c) == UpdateWithin(MaxFrames, frameDelta, keySeq, c)

\* (variant: the loop tests the window only)
LoopTestWindowOnly(close) == TRUE

\* the test of main's loop, `!mainWindow.ShouldClose() && !gameScene.ShouldClose',
\* in a window that is not being closed
LoopTest(close) == ~close

\* one frame of the main loop with the inputs of the registered input system
Frame ==
    /\ pc = "loop"
    /\ LoopTest(shouldClose)
    /\ \E frameDelta \in FrameDeltas :
       \E keySeq \in (IF "KeyboardInputSystem" \in Systems THEN SceneKeySeqs
                      ELSE {<<>>}) :
       \E c \in (IF "VRInputSystem" \in Systems THEN SceneSamples ELSE {NoController}) :
           Update(frameDelta, keySeq, c)

Next == SetupScene \/ Frame

Spec == Init /\ [][Next]_vars

\* -------------------------------------------- setup under any configuration
\* a host that may have registered no render system, and assets that may be
\* missing
InitSetup ==
    /\ mode \in {"forward", "vr", "none"}
    /\ assets \in SUBSET AllAssets
    /\ callbacks = IF "VRInputSystem" \in Systems THEN MainCallbacks ELSE {}
    /\ InitState

SpecSetup == InitSetup /\ [][Next]_vars

\* ------------------------------------- the systems under an arbitrary host
\* the host may remove the ship, the player anchor or the oldest wall
HostRemovable(E) ==
    (DOMAIN E) \cap ({shipID, playerID}
                     \cup {i \in DOMAIN E : \A j \in DOMAIN E : i <= j})

\* BasicSceneManager.RemoveEntity(e) called by the host
HostRemoveEntity(id) ==
    /\ pc = "loop"
    /\ ~faulted
    /\ SetWorld(SceneRemove(World, {id}))
    /\ UNCHANGED currentGameTime
    /\ UNCHANGED drawn
    /\ UNCHANGED timeSinceLastSpawn
    /\ UNCHANGED shouldClose
    /\ UNCHANGED <<mode, assets, setupErr, callbacks, called, pc, currentFrameDelta,
                   kbFrameDelta, uiVisible, quitMenus, frames, keysDown, controller,
                   frameHit>>

HostFrameDeltas == {100}

HostKeySeqs == {<<>>, <<"D">>}

HostSamples == {NoController, OneController(10, 0, TRUE, <<0, 1200, 100>>)}

\* BasicSceneManager.Update(frameDelta) called by the host, before or after the
\* scene is set up: the registered input system runs
HostSystemsUpdate(frameDelta, keySeq, c) ==
    /\ pc \in {"setup", "loop"}
    /\ ~faulted
    /\ frames < MaxInputFrames
    /\ frames' = frames + 1
    /\ kbFrameDelta' = IF "KeyboardInputSystem" \in Systems THEN frameDelta
                       ELSE kbFrameDelta
    /\ keysDown' = {keySeq[i] : i \in 1..Len(keySeq)}
    /\ controller' = c
    /\ \E w \in {SystemsUpdate(World, frameDelta, keySeq, c)} :
          /\ SetWorld(w)
          /\ called' = w.called
          /\ shouldClose' = w.shouldClose
          /\ drawn' = IF w.faulted THEN drawn ELSE RenderSystemUpdate(w.ents, drawn)
    /\ UNCHANGED currentGameTime
    /\ UNCHANGED timeSinceLastSpawn
    /\ UNCHANGED <<mode, assets, setupErr, callbacks, pc, currentFrameDelta,
                   uiVisible, quitMenus, frameHit>>

HostFrame ==
    \E frameDelta \in HostFrameDeltas :
    \E keySeq \in (IF "KeyboardInputSystem" \in Systems THEN HostKeySeqs ELSE {<<>>}) :
    \E c \in (IF "VRInputSystem" \in Systems THEN HostSamples ELSE {NoController}) :
        HostSystemsUpdate(frameDelta, keySeq, c)

HostRemoval == \E id \in HostRemovable(ents) : HostRemoveEntity(id)

NextHost == SetupScene \/ HostRemoval \/ HostFrame

SpecHost == Init /\ [][NextHost]_vars

\* ------------------------------------------- the ship controllers on their own
\* KeyboardInputSystem.Update(frameDelta) as the scene manager calls it, with
\* the handlers of the held keys invoked in the order keySeq
KeyboardUpdate(frameDelta, keySeq) ==
    /\ pc = "loop"
    /\ "KeyboardInputSystem" \in Systems
    /\ ~faulted
    /\ frames < MaxInputFrames
    /\ frames' = frames + 1
    /\ kbFrameDelta' = frameDelta
    /\ keysDown' = {keySeq[i] : i \in 1..Len(keySeq)}
    /\ SetWorld(KeyboardSystemUpdate(World, frameDelta, keySeq))
    /\ UNCHANGED currentGameTime
    /\ UNCHANGED drawn
    /\ UNCHANGED timeSinceLastSpawn
    /\ UNCHANGED shouldClose
    /\ UNCHANGED <<mode, assets, setupErr, callbacks, called, pc, currentFrameDelta,
                   uiVisible, quitMenus, controller, frameHit>>

KeyboardFrame ==
    \E frameDelta \in InputFrameDeltas :
    \E K \in SUBSET DirectionKeys :
    \E keySeq \in Orders(K) :
        KeyboardUpdate(frameDelta, keySeq)

InitKB == Init /\ mode = "forward"

NextKB == SetupScene \/ KeyboardFrame

SpecKB == InitKB /\ [][NextKB]_vars

\* the samples a tracked controller can give: directions inside the unit disc
ControllerSamples ==
    {NoController}
    \cup {OneController(d[1], d[2], m, h) :
            d \in {<<0, 0>>, <<10, 0>>, <<-10, 0>>, <<0, 10>>, <<0, -10>>, <<6, -8>>},
            m \in BOOLEAN, h \in {<<0, 0, 0>>, <<0, 1200, 100>>}}

\* VRInputSystem.Update(frameDelta) as the scene manager calls it
VRUpdate(frameDelta, c) ==
    /\ pc = "loop"
    /\ "VRInputSystem" \in Systems
    /\ ~faulted
    /\ frames < MaxInputFrames
    /\ frames' = frames + 1
    /\ controller' = c
    /\ \E w \in {VRInputSystemUpdate(World, frameDelta, c)} :
          SetWorld(w) /\ called' = w.called /\ shouldClose' = w.shouldClose
    /\ UNCHANGED currentGameTime
    /\ UNCHANGED drawn
    /\ UNCHANGED timeSinceLastSpawn
    /\ UNCHANGED <<mode, assets, setupErr, callbacks, pc, currentFrameDelta,
                   kbFrameDelta, uiVisible, quitMenus, keysDown, frameHit>>

VRFrame ==
    \E frameDelta \in InputFrameDeltas :
    \E c \in ControllerSamples :
        VRUpdate(frameDelta, c)

InitVR == Init /\ mode = "vr"

NextVR == SetupScene \/ VRFrame

SpecVR == InitVR /\ [][NextVR]_vars

\* ----------------------------------- the VR systems with the UI system present
\* a host that registers the VR renderer, the VR input system and the UI system:
\* the configuration in which a run can end and be restarted by the menu button
InitVRUI ==
    /\ mode = "vrui"
    /\ assets = AllAssets
    /\ callbacks = MainCallbacks
    /\ InitState

SpecVRUI == InitVRUI /\ [][Next]_vars

\* ------------------------------------ the callback dispatch of VRInputSystem
\* the callback fields a host may have set: as main does, both menu callbacks,
\* the three left ones, or all six
CallbackConfigs ==
    {MainCallbacks,
     {"OnAppMenuButtonL", "OnAppMenuButtonR"},
     {"OnAppMenuButtonL", "OnGripButtonL", "OnControllerAxisUpdateL"},
     CallbackNames}

\* frames with one or two connected controllers and any buttons pressed
DispatchSamples ==
    {NoController}
    \cup {[OneController(10, 0, m, <<0, 1200, 100>>)
             EXCEPT !.grip = g, !.connected2 = b[1], !.menu2 = b[2], !.grip2 = b[3]] :
            m \in BOOLEAN, g \in BOOLEAN,
            b \in {<<FALSE, FALSE, FALSE>>} \cup ({TRUE} \X BOOLEAN \X BOOLEAN)}

DispatchFrame ==
    \E frameDelta \in HostFrameDeltas :
    \E c \in DispatchSamples :
        VRUpdate(frameDelta, c)

InitDispatch ==
    /\ mode = "vr"
    /\ assets = AllAssets
    /\ callbacks \in CallbackConfigs
    /\ InitState

NextDispatch == SetupScene \/ DispatchFrame

SpecDispatch == InitDispatch /\ [][NextDispatch]_vars

\* --------------------------------------------- bombs and wall sets scrolling
bombMaxSpeed == 40

\* math.Cos and math.Sin at t * pi/2
Cos(t) == CASE t % 4 = 0 -> 1 [] t % 4 = 2 -> -1 [] OTHER -> 0

Sin(t) == CASE t % 4 = 1 -> 1 [] t % 4 = 3 -> -1 [] OTHER -> 0

\* NewWallSetEntity, placed at loc
NewWallSetEntity(loc) ==
    [name |-> <<"WallSet", 0>>, type |-> "WallSetEntity", loc |-> loc,
     orient |-> QuatRollPitch(0, 0), ncol |-> 0]

\* NewBombEntity, placed at loc; the two offsets are rand.Float64() * 2.0
NewBombEntity(loc, xOffset, yOffset) ==
    [name |-> <<"Bomb", 0>>, type |-> "BombEntity", loc |-> loc,
     orient |-> QuatRollPitch(0, 0), ncol |-> 0,
     currentSpeed |-> <<0, 0, 0>>,
     movementCurveXOffset |-> xOffset, movementCurveYOffset |-> yOffset]

\* BombEntity.SetMaxSpeed
SetMaxSpeed(b) == [b EXCEPT !.currentSpeed = <<0, 0, -bombMaxSpeed>>]

\* WallSetEntity.ScrollPastPlayer: the entity after the call
WallSetScrollPastPlayer(wse, backwardSpeed, frameDelta) ==
    [wse EXCEPT !.loc = Vec3Add(wse.loc, backwardSpeed)]

\* totalSpeed of BombEntity.ScrollPastPlayer after the wave adjustment
BombTotalSpeed(b, backwardSpeed, frameDelta, gameTime) ==
    LET totalSpeed == Vec3Add(backwardSpeed, Vec3Mul(b.currentSpeed, frameDelta))
    IN  <<totalSpeed[1] + Cos(gameTime + b.movementCurveXOffset) * frameDelta,
          totalSpeed[2] + Sin(gameTime + b.movementCurveYOffset) * frameDelta,
          totalSpeed[3]>>

\* BombEntity.ScrollPastPlayer: the entity after the call
BombScrollPastPlayer(b, backwardSpeed, frameDelta, gameTime) ==
    [b EXCEPT !.loc = Vec3Add(b.loc,
                              BombTotalSpeed(b, backwardSpeed, frameDelta, gameTime))]

\* the values the game clock takes, and the curve offsets of a bomb
GameTimes == 0..3

CurveOffsets == {0, 1}

ScrollFrameDeltas == {100, 1000}

\* a scene of one wall set (ID 1) and one bomb (ID 2) ahead of a ship flying
\* at (0, 0, 25); the bomb is as NewBombEntity made it or has been given its
\* maximum speed
InitScroll ==
    /\ mode = "forward"
    /\ assets = AllAssets
    /\ callbacks = {}
    /\ pc = "scroll"
    /\ nextID = 3
    /\ currentShipSpeed = <<0, 0, shipSpeedZ>>
    /\ currentGameTime \in GameTimes
    /\ \E x \in {-10000, 0}, xo \in CurveOffsets, yo \in CurveOffsets, fast \in BOOLEAN :
          ents = [id \in {1, 2} |->
                    IF id = 1 THEN NewWallSetEntity(<<0, 0, 250000>>)
                    ELSE IF fast
                    THEN SetMaxSpeed(NewBombEntity(<<x, 5000, 250000>>, xo, yo))
                    ELSE NewBombEntity(<<x, 5000, 250000>>, xo, yo)]
    /\ InitSystems

\* one frame of the world scroller over bombs and wall sets: each entity's
\* ScrollPastPlayer is called with the frame's backward speed; the game clock
\* has the value the host gave it
ScrollPastPlayerFrame ==
    /\ pc = "scroll"
    /\ frames < MaxInputFrames
    /\ frames' = frames + 1
    /\ \E frameDelta \in ScrollFrameDeltas :
          /\ currentFrameDelta' = frameDelta
          /\ ents' = [id \in DOMAIN ents |->
                        IF ents[id].type = "BombEntity"
                        THEN BombScrollPastPlayer(ents[id],
                                 Vec3Mul(currentShipSpeed, -frameDelta), frameDelta,
                                 currentGameTime)
                        ELSE WallSetScrollPastPlayer(ents[id],
                                 Vec3Mul(currentShipSpeed, -frameDelta), frameDelta)]
    /\ currentGameTime' \in GameTimes
    /\ UNCHANGED drawn
    /\ UNCHANGED timeSinceLastSpawn
    /\ UNCHANGED shouldClose
    /\ UNCHANGED <<mode, assets, setupErr, refs, callbacks, called, pc, nextID, shipID,
                   playerID, currentShipRoll, currentShipPitch, currentShipSpeed,
                   kbFrameDelta, lastGridSpawn, distanceTravelled, gameState,
                   uiVisible, quitMenus, faulted, keysDown, controller, frameHit>>

SpecScroll == InitScroll /\ [][ScrollPastPlayerFrame]_vars

\* ------------------------------------------------- trackpad ship controller
\* the constants of HandleAxisLUpdate, in ms
rollAccumulatorFactor == 200
rollDecayFactor == 400
pitchAccumulatorFactor == 100
pitchDecayFactor == 200

\* (variant: the decayed accumulator is not clamped at zero)
DecayUnclamped(acc, decayDelta) ==
    IF acc > 0 THEN acc - decayDelta
    ELSE IF acc < 0 THEN acc + decayDelta
    ELSE acc

\* the else branch of HandleAxisLUpdate: the accumulator decays toward zero
Decay(acc, decayDelta) ==
    IF acc > 0 THEN Clamp(acc - decayDelta, 0, acc - decayDelta)
    ELSE IF acc < 0 THEN Clamp(acc + decayDelta, acc + decayDelta, 0)
    ELSE acc

\* one axis of HandleAxisLUpdate: input in tenths, the factors in ms
AxisAccumulate(acc, input, frameDelta, accFactor, decayFactor, maxRads) ==
    IF input # 0
    THEN Clamp(acc + (input * frameDelta * maxRads) \div (10 * accFactor),
               -maxRads, maxRads)
    ELSE Decay(acc, (frameDelta * maxRads) \div decayFactor)

\* GameScene.HandleAxisLUpdate: <<currentShipRoll, currentShipPitch>> after the call
HandleAxisLUpdate(roll, pitch, axisX, axisY, frameDelta) ==
    <<AxisAccumulate(roll, axisX, frameDelta, rollAccumulatorFactor, rollDecayFactor,
                     maxRollRads),
      AxisAccumulate(pitch, axisY, frameDelta, pitchAccumulatorFactor,
                     pitchDecayFactor, maxPitchRads)>>

\* trackpad positions and frame deltas (ms) of a frame
AxisValues == {-10, 0, 5}

AxisFrameDeltas == {0, 100, 250}

\* a frame in which the VR input system hands the trackpad axis to
\* HandleAxisLUpdate; GameScene.Update has stored the frame delta before
HandleAxisLUpdateFrame ==
    /\ pc = "axis"
    /\ \E frameDelta \in AxisFrameDeltas, x \in AxisValues, y \in AxisValues :
          /\ currentFrameDelta' = frameDelta
          /\ controller' = [NoController EXCEPT !.connected = TRUE, !.axisX = x,
                                                !.axisY = y]
          /\ currentShipRoll' =
                HandleAxisLUpdate(currentShipRoll, currentShipPitch, x, y, frameDelta)[1]
          /\ currentShipPitch' =
                HandleAxisLUpdate(currentShipRoll, currentShipPitch, x, y, frameDelta)[2]
    /\ UNCHANGED <<currentGameTime, drawn>>
    /\ UNCHANGED timeSinceLastSpawn
    /\ UNCHANGED shouldClose
    /\ UNCHANGED <<mode, assets, setupErr, refs, callbacks,
                   called, pc, ents, nextID, shipID, playerID, currentShipSpeed,
                   kbFrameDelta, lastGridSpawn, distanceTravelled, gameState,
                   uiVisible, quitMenus, faulted, frames, keysDown, frameHit>>

InitAxis ==
    /\ mode = "vr"
    /\ assets = AllAssets
    /\ callbacks = {"OnControllerAxisUpdateL"}
    /\ pc = "axis"
    /\ ents = EmptyScene
    /\ nextID = 1
    /\ currentShipSpeed = <<0, 0, 0>>
    /\ currentGameTime = 0
    /\ InitSystems

\* the main loop keeps running frames
SpecAxis == InitAxis /\ [][HandleAxisLUpdateFrame]_vars /\ WF_vars(HandleAxisLUpdateFrame)

\* ------------------------------------------- grid floor scene (gameScene.go)
\* the scene with the grid floor: walls are spawned by time, the ship is
\* steered by the trackpad accumulators
spawnTime == 4000
wallSpawnDistance == 100000
floorHalfWidth == 5000
shipMinHeight == 100
shipMaxHeight == 2000

\* the entities SetupScene of this scene creates: floor, ship, player anchor
GridFloorScene ==
    [id \in 1..3 |->
        IF id = 1 THEN NewVisibleEntity("GridFloor", 0, <<0, 0, 0>>, 0)
        ELSE IF id = 2 THEN NewVisibleEntity("", 0, <<0, 1000, 0>>, 0)
        ELSE NewVisibleEntity(playerEntityName, 0, <<0, 1200, -250>>, 0)]

\* SpawnNewWalls by time: the scene and the timer after the call
TimedSpawnNewWalls(E, id, timer, frameDelta) ==
    IF timer + frameDelta < spawnTime
    THEN [ents |-> E, nextID |-> id, timer |-> timer + frameDelta]
    ELSE [ents |-> AddEntity(E, id, NewVisibleEntity("Wall_8mx4m", 0,
                                        <<0, 0, wallSpawnDistance>>, 0)),
          nextID |-> id + 1, timer |-> 0]

\* the ship after Update has turned it and moved it by the roll and pitch ratios
SteerShip(e, roll, pitch, frameDelta) ==
    [e EXCEPT !.orient = QuatRollPitch(roll, pitch),
              !.loc = <<Clamp(e.loc[1] - (roll * frameDelta) \div maxRollRads,
                              -floorHalfWidth, floorHalfWidth),
                        Clamp(e.loc[2] - (pitch * frameDelta) \div maxPitchRads,
                              shipMinHeight, shipMaxHeight),
                        e.loc[3]>>]

\* frame deltas (ms) of a frame of this scene: 60 and 10 frames per second,
\* and a stall of 4 s
FloorFrameDeltas == {16, 100, 4000}

\* what the trackpad reports in a frame: no controller, or an axis position
FloorAxisSamples == {<<FALSE, 0, 0>>} \cup {<<TRUE, x, y>> : x \in {0, 5}, y \in {0, 5}}

\* GameScene.Update of this scene: the input system hands the trackpad to
\* HandleAxisLUpdate, then walls are spawned, the ship is steered, every other
\* entity is scrolled (the floor by its own rule) and the walls behind the
\* cutoff are removed
GridFloorUpdate ==
    /\ pc = "floor"
    /\ frames < MaxFrames
    /\ frames' = frames + 1
    /\ \E frameDelta \in FloorFrameDeltas, axis \in FloorAxisSamples :
       \E rp \in {IF axis[1]
                  THEN HandleAxisLUpdate(currentShipRoll, currentShipPitch,
                                         axis[2], axis[3], frameDelta)
                  ELSE <<currentShipRoll, currentShipPitch>>} :
       \E sp \in {TimedSpawnNewWalls(ents, nextID, timeSinceLastSpawn, frameDelta)} :
       \E moved \in {ScrollAll([sp.ents EXCEPT
                                  ![shipID] = SteerShip(@, rp[1], rp[2], frameDelta)],
                               Vec3Mul(currentShipSpeed, -frameDelta),
                               shipID, playerID)} :
          /\ currentFrameDelta' = frameDelta
          /\ controller' = [NoController EXCEPT !.connected = axis[1],
                                                !.axisX = axis[2], !.axisY = axis[3]]
          /\ currentShipRoll' = rp[1]
          /\ currentShipPitch' = rp[2]
          /\ timeSinceLastSpawn' = sp.timer
          /\ nextID' = sp.nextID
          /\ ents' = RemoveEntities(moved, WallsToRemove(moved, shipID, playerID))
          /\ drawn' = RenderSystemUpdate(ents, drawn)
    /\ UNCHANGED <<currentGameTime, shipID, playerID>>
    /\ UNCHANGED shouldClose
    /\ UNCHANGED <<mode, assets, setupErr, refs, callbacks, called, pc,
                   currentShipSpeed, kbFrameDelta, lastGridSpawn,
                   distanceTravelled, gameState, uiVisible, quitMenus, faulted,
                   keysDown, frameHit>>

\* the state after SetupScene of this scene
InitFloor ==
    /\ mode = "vr"
    /\ assets = AllAssets
    /\ callbacks = {"OnControllerAxisUpdateL"}
    /\ pc = "floor"
    /\ ents = GridFloorScene
    /\ nextID = 4
    /\ shipID = 2
    /\ playerID = 3
    /\ currentShipSpeed = <<0, 0, shipSpeedZ>>
    /\ currentGameTime = 0
    /\ timeSinceLastSpawn = 0
    /\ shouldClose = FALSE
    /\ drawn = <<>>
    /\ setupErr = FALSE
    /\ refs = NoRefs
    /\ called = <<>>
    /\ currentShipRoll = 0
    /\ currentShipPitch = 0
    /\ currentFrameDelta = 0
    /\ kbFrameDelta = 0
    /\ lastGridSpawn = 0
    /\ distanceTravelled = 0
    /\ gameState = 0
    /\ uiVisible = FALSE
    /\ quitMenus = 0
    /\ faulted = FALSE
    /\ frames = 0
    /\ keysDown = {}
    /\ controller = NoController
    /\ frameHit = FALSE

SpecFloor == InitFloor /\ [][GridFloorUpdate]_vars

\* --------------------------------------------------------- the long corridor
\* runs long enough for the corridor to fill: frames of about a quarter of a
\* second and of about a second (6.275 and 25.1 units of travel), with no key held
\* and no controller connected
MaxCorridorFrames == 10

CorridorFrameDeltas == {251, 1004}

CorridorFrame ==
    /\ pc = "loop"
    /\ \E frameDelta \in CorridorFrameDeltas :
          UpdateWithin(MaxCorridorFrames, frameDelta, <<>>, NoController)

NextCorridor == SetupScene \/ CorridorFrame

SpecCorridor == Init /\ [][NextCorridor]_vars

\* ----------------------------------------------- a reset that can fail
\* the VR systems with the UI system, on a machine where the basic shader may
\* stop compiling once the scene is set up (the assets are not looked at before
\* the reset)
ShaderLost ==
    /\ pc = "loop"
    /\ "Basic" \in assets
    /\ assets' = assets \ {"Basic"}
    /\ UNCHANGED <<timeSinceLastSpawn, shouldClose, drawn,
                   currentGameTime, mode, setupErr, refs, callbacks, called, pc,
                   ents, nextID, shipID, playerID, currentShipRoll,
                   currentShipPitch, currentShipSpeed, currentFrameDelta,
                   kbFrameDelta, lastGridSpawn, distanceTravelled, gameState,
                   uiVisible, quitMenus, faulted, frames, keysDown, controller,
                   frameHit>>

\* main's loop test fails: main shuts down and returns
MainExit ==
    /\ pc = "loop"
    /\ ~LoopTest(shouldClose)
    /\ pc' = "exit"
    /\ UNCHANGED <<timeSinceLastSpawn, shouldClose, drawn,
                   currentGameTime, mode, assets, setupErr, refs, callbacks,
                   called, ents, nextID, shipID, playerID, currentShipRoll,
                   currentShipPitch, currentShipSpeed, currentFrameDelta,
                   kbFrameDelta, lastGridSpawn, distanceTravelled, gameState,
                   uiVisible, quitMenus, faulted, frames, keysDown, controller,
                   frameHit>>

NextReset == SetupScene \/ Frame \/ ShaderLost \/ MainExit

SpecReset == InitVRUI /\ [][NextReset]_vars

\* ===================================================================== claims
\* a step of the main loop that ran GameScene.Update
UpdateStep == frames' = frames + 1

\* the obstacles of the scene: everything but the ship and the player anchor
Obstacles(E) == DOMAIN E \ {shipID, playerID}

\* C1: while Playing, an Update call sets the state to PlayerDied exactly when
\* the frame's geometry has a collider of some entity other than the ship and
\* the player anchor overlapping a ship collider (whichever entity and whichever
\* collider that is), and no other step ever sets the state to PlayerDied.
C1_DiedIffCollision ==
    [][ /\ (gameState = gameStatePlaying /\ UpdateStep)
            => ((gameState' = gameStatePlayerDied) <=> frameHit')
        /\ (gameState # gameStatePlayerDied /\ gameState' = gameStatePlayerDied)
            => (gameState = gameStatePlaying /\ UpdateStep /\ frameHit')
      ]_vars

\* C1 witness: the first frame found an overlap and ended the run
C1_Witness ==
    /\ frames = 1
    /\ gameState = gameStatePlayerDied
    /\ frameHit
    /\ ~faulted

\* C2: once the state is PlayerDied, every further step leaves it PlayerDied,
\* creates and removes no entity, moves no wall, and leaves lastGridSpawn and
\* distanceTravelled as they were.
C2_PlayerDiedAbsorbing ==
    [][ gameState = gameStatePlayerDied =>
          /\ gameState' = gameStatePlayerDied
          /\ DOMAIN ents' = DOMAIN ents
          /\ nextID' = nextID
          /\ \A id \in Obstacles(ents) : ents'[id] = ents[id]
          /\ lastGridSpawn' = lastGridSpawn
          /\ distanceTravelled' = distanceTravelled
      ]_vars

\* C2 witness: an Update call was made after the run had ended (the frame of
\* the transition always shows the overlap; this later frame showed none)
C2_Witness ==
    /\ gameState = gameStatePlayerDied
    /\ ~faulted
    /\ frames >= 2
    /\ currentFrameDelta = 1000
    /\ ~frameHit

\* C3 (as claimed): in the frame whose collision check ends the run the
\* accumulators are not advanced, no entity is translated and none is removed.
C3_TransitionFrameSkipsRest ==
    [][ (gameState = gameStatePlaying /\ gameState' = gameStatePlayerDied) =>
          /\ distanceTravelled' = distanceTravelled
          /\ lastGridSpawn' \in {lastGridSpawn, 0}
          /\ \A id \in Obstacles(ents) :
                id \in DOMAIN ents' /\ ents'[id].loc = ents[id].loc
      ]_vars

\* C4: the quit menu is shown by no step other than the Update call that moves
\* the state from Playing to PlayerDied, that call shows it once (one
\* SetVisible(true), one ShowQuitMenu) when a UI system is registered, and it
\* is never shown a second time, whatever the colliders do in later frames.
C4_RunEndedNotifiedOnce ==
    [][ /\ (quitMenus' # quitMenus \/ uiVisible' # uiVisible)
            => /\ gameState = gameStatePlaying
               /\ gameState' = gameStatePlayerDied
               /\ UpdateStep
        /\ (gameState = gameStatePlaying /\ gameState' = gameStatePlayerDied
            /\ UISystemRegistered)
            => (quitMenus' = quitMenus + 1 /\ uiVisible')
        /\ quitMenus' <= 1
      ]_vars

\* C4 witness: the run has ended, the menu was shown once, and a later frame
\* whose colliders still overlap has run
C4_Witness ==
    /\ gameState = gameStatePlayerDied
    /\ frames = 3
    /\ frameHit
    /\ quitMenus = 1
    /\ uiVisible

\* the distance one frame of frameDelta ms covers at ship velocity (0, 0, 25)
FrameTravel(frameDelta) == shipSpeedZ * frameDelta

\* a step in which Update ran while Playing and returned
PlayingUpdateReturned ==
    /\ gameState = gameStatePlaying
    /\ UpdateStep
    /\ ~faulted'

\* where an obstacle stood when the scroller reached it: its old place, or the
\* spawn point for the wall the spawner created in this frame
PlaceBeforeScroll(id) ==
    IF id \in DOMAIN ents THEN ents[id].loc ELSE <<0, 0, spawnDistance>>

\* the obstacles the scroller of this step visited
Scrolled == (DOMAIN ents \cup (nextID..(nextID' - 1))) \ {shipID, playerID}

\* C5 (as claimed): an Update call made while Playing with lastGridSpawn >= 25.0
\* creates exactly one wall.
C5_SpawnAtOrAboveSegmentLength ==
    [][ (gameState = gameStatePlaying /\ UpdateStep
         /\ lastGridSpawn >= gridSegmentLength)
            => nextID' = nextID + 1
      ]_vars

\* C5 (amended): an Update call made while Playing creates a wall exactly when
\* lastGridSpawn is strictly above 25.0 at the start of the call (none at 25.0
\* itself); it then creates exactly one, at (0, 0, 212.5), which the scroller
\* moves with the rest in the same call, and lastGridSpawn restarts from 0, so
\* that it holds this frame's travel alone when the call returns.
C5_SpawnAboveSegmentLength ==
    [][ (gameState = gameStatePlaying /\ UpdateStep) =>
          IF lastGridSpawn > gridSegmentLength
          THEN /\ nextID' = nextID + 1
               /\ DOMAIN ents' \subseteq DOMAIN ents \cup {nextID}
               /\ nextID \in DOMAIN ents' =>
                     /\ ents'[nextID].type = "VisibleEntity"
                     /\ ents'[nextID].loc =
                          IF faulted' THEN <<0, 0, 212500>>
                          ELSE <<0, 0, 212500 - FrameTravel(currentFrameDelta')>>
               /\ (faulted' \/ 212500 - FrameTravel(currentFrameDelta') >= rearCutoff)
                     => nextID \in DOMAIN ents'
               /\ lastGridSpawn' = IF faulted' THEN 0
                                   ELSE FrameTravel(currentFrameDelta')
          ELSE /\ nextID' = nextID
               /\ DOMAIN ents' \subseteq DOMAIN ents
               /\ lastGridSpawn' = IF faulted' THEN lastGridSpawn
                                   ELSE lastGridSpawn + FrameTravel(currentFrameDelta')
      ]_vars

\* C5 witness: a frame of 1.0 s brought lastGridSpawn to 25.0 exactly and the
\* next frame created no wall; the frame after it did
C5_Witness ==
    /\ frames = 3
    /\ gameState = gameStatePlaying
    /\ distanceTravelled = 50000 + FrameTravel(currentFrameDelta)
    /\ lastGridSpawn = FrameTravel(currentFrameDelta)
    /\ nextID = 13
    /\ 12 \in DOMAIN ents
    /\ ents[12].loc = <<0, 0, 212500 - FrameTravel(currentFrameDelta)>>

C7_RearwardCutoff ==
    [][ PlayingUpdateReturned =>
          /\ \A id \in Scrolled :
                (id \notin DOMAIN ents')
                <=> (PlaceBeforeScroll(id)[3] - FrameTravel(currentFrameDelta') < -200000)
          /\ shipID \in DOMAIN ents'
          /\ playerID \in DOMAIN ents'
      ]_vars

\* C7 witness: with dt = 0.1 the first wall went from -199.9 to -202.4 and was
\* removed, while the second went from -174.9 to -177.4 and stayed
C7_Witness ==
    /\ frames = 2
    /\ currentFrameDelta = 100
    /\ distanceTravelled = 212400 + 2500
    /\ 1 \notin DOMAIN ents
    /\ 2 \in DOMAIN ents
    /\ ents[2].loc = <<0, 0, -177400>>

\* roll and pitch both inside their limits
WithinLimits(rp) ==
    /\ -maxRollRads <= rp[1] /\ rp[1] <= maxRollRads
    /\ -maxPitchRads <= rp[2] /\ rp[2] <= maxPitchRads

\* C8: under the keyboard policy the roll stays within [-maxRollRads,
\* maxRollRads] and the pitch within [-maxPitchRads, maxPitchRads]: they are
\* within the limits after every frame, whatever the frame delta (0 included)
\* and the order of the handlers, and one more invocation of any of the four
\* handlers, with any frame delta, leaves them within the limits.
C8_KeyboardAnglesWithinLimits ==
    /\ WithinLimits(<<currentShipRoll, currentShipPitch>>)
    /\ \A key \in DirectionKeys : \A frameDelta \in InputFrameDeltas :
          WithinLimits(KeyHandler(key, <<currentShipRoll, currentShipPitch>>,
                                  frameDelta))

\* C8 witness: a long frame with roll-right and pitch-up held drove the roll to
\* its upper and the pitch to its lower limit
C8_Witness ==
    /\ frames = 2
    /\ keysDown = {"D", "W"}
    /\ kbFrameDelta = 8500
    /\ currentShipRoll = maxRollRads
    /\ currentShipPitch = -maxPitchRads

\* C9: under the keyboard policy a frame with no directional key held leaves the
\* roll and the pitch exactly as they were, a frame with only roll keys held
\* leaves the pitch as it was, and a frame with only pitch keys held leaves the
\* roll as it was.
C9_NoDecayNoCrossAxis ==
    [][ UpdateStep =>
          /\ keysDown' = {} =>
                /\ currentShipRoll' = currentShipRoll
                /\ currentShipPitch' = currentShipPitch
          /\ keysDown' \subseteq {"A", "D"} => currentShipPitch' = currentShipPitch
          /\ keysDown' \subseteq {"W", "S"} => currentShipRoll' = currentShipRoll
      ]_vars

\* C9 witness: after a frame of 0.1 s with roll-left and pitch-down held, a
\* frame of 1 s with no key held has kept roll and pitch while the ship drifted
C9_Witness ==
    /\ frames = 2
    /\ keysDown = {}
    /\ kbFrameDelta = 1000
    /\ currentShipRoll = -600
    /\ currentShipPitch = 300
    /\ ents[shipID].loc = <<3300, -1300, 0>>

\* C10: under the controller policy the roll is -orientation.x * maxRollRads and
\* the pitch orientation.z * maxPitchRads of this frame's sample, whatever they
\* were before; a sample of (1, 0) gives exactly -maxRollRads, and (0, 0), or no
\* connected controller, gives roll 0 and pitch 0.
C10_ControllerAnglesMemoryless ==
    [][ UpdateStep =>
          LET x == IF controller'.connected THEN controller'.ox ELSE 0
              z == IF controller'.connected THEN controller'.oz ELSE 0
          IN  /\ 10 * currentShipRoll' = -(x * maxRollRads)
              /\ 10 * currentShipPitch' = z * maxPitchRads
              /\ (x = 10 /\ z = 0) =>
                    currentShipRoll' = -4000 /\ currentShipPitch' = 0
              /\ (x = 0 /\ z = 0) =>
                    currentShipRoll' = 0 /\ currentShipPitch' = 0
      ]_vars

\* C10 witness: a frame of 1 s sampled at x = -1 rolled the ship to +maxRollRads
\* and carried it to x = -20; the next frame of 0.1 s sampled at x = 1 has the
\* roll at -maxRollRads
C10_Witness ==
    /\ frames = 2
    /\ controller.connected
    /\ controller.ox = 10
    /\ controller.oz = 0
    /\ currentShipRoll = -maxRollRads
    /\ currentShipPitch = 0
    /\ ents[shipID].loc[1] = -18000

\* the ship reference of the registered input system
InputShipRef ==
    IF "KeyboardInputSystem" \in Systems THEN refs.kbShip ELSE refs.vrShip

\* C11 (as claimed): an Update of the input system made while its ship
\* reference is absent does not fault and changes no entity and no angle.
C11_AbsentShipIsNoOp ==
    [][ (UpdateStep /\ InputShipRef = 0) =>
          /\ ~faulted'
          /\ ents' = ents
          /\ currentShipRoll' = currentShipRoll
          /\ currentShipPitch' = currentShipPitch
      ]_vars

\* the references the registered systems hold
CachedRefs == {refs[f] : f \in DOMAIN refs} \ {0}

\* C20 (as claimed): no system holds a reference to an entity that has been
\* removed from the scene.
C20_NoStaleReference == CachedRefs \subseteq DOMAIN ents

\* C12: without a registered render system SetupScene returns an error and
\* leaves the scene as it was: no entity, no ship or player reference, the
\* state not Playing; nothing runs afterwards.
C12_NoRendererSetupFails ==
    mode = "none" =>
        /\ pc \in {"setup", "exit"}
        /\ pc = "exit" => setupErr
        /\ ~faulted
        /\ ents = EmptyScene
        /\ shipID = 0 /\ playerID = 0
        /\ refs = NoRefs
        /\ gameState # gameStatePlaying
        /\ frames = 0

\* C12 witness: SetupScene has returned its error although every asset loads
C12_Witness ==
    /\ mode = "none"
    /\ assets = AllAssets
    /\ setupErr
    /\ pc = "exit"
    /\ ents = EmptyScene

\* C13 (as claimed): when a component file cannot be loaded, SetupScene returns
\* an error, creates no entity and does not enter Playing.
C13_MissingTemplateSetupFails ==
    (pc # "setup" /\ ~({"entity/ship", "grid/proto"} \subseteq assets)) =>
        /\ setupErr
        /\ ~faulted
        /\ ents = EmptyScene
        /\ gameState # gameStatePlaying

\* the name and place of every entity of a fresh setup
FreshEntities ==
    {<<<<"GridProto_pre", (firstWallZ + k * gridSegmentLength) \div 1000>>,
       <<0, 0, firstWallZ + k * gridSegmentLength>>>> : k \in 0..(NumInitialWalls - 1)}
    \cup {<<<<playerShipEntityName, 0>>, <<0, 2000, 0>>>>,
          <<<<playerEntityName, 0>>, <<0, 2200, -250>>>>}

\* the scene w is a fresh run
FreshRun(w) ==
    /\ ~w.faulted
    /\ w.gameState = gameStatePlaying
    /\ w.lastGridSpawn = 0
    /\ w.distanceTravelled = 0
    /\ Cardinality(DOMAIN w.ents) = NumInitialWalls + 2
    /\ {<<w.ents[i].name, w.ents[i].loc>> : i \in DOMAIN w.ents} = FreshEntities
    /\ w.ents[w.shipID].name = <<playerShipEntityName, 0>>
    /\ w.ents[w.playerID].name = <<playerEntityName, 0>>
    /\ w.roll = 0 /\ w.pitch = 0

\* a frame whose menu button press finds the run ended
ResetFrame ==
    /\ gameState = gameStatePlayerDied
    /\ ~faulted
    /\ UpdateStep
    /\ controller'.connected /\ controller'.menu
    /\ "OnAppMenuButtonL" \in callbacks

\* the scene after a frame that began with the reset: nothing of the ended run
\* is left, the walls of the fresh setup have scrolled by this frame's travel
\* and the accumulators hold this frame's travel only
ResetFrameOutcome ==
    /\ ~faulted'
    /\ DOMAIN ents' = nextID..(nextID + NumInitialWalls + 1)
    /\ nextID' = nextID + NumInitialWalls + 2
    /\ shipID' = nextID + NumInitialWalls
    /\ playerID' = shipID' + 1
    /\ \A k \in 0..(NumInitialWalls - 1) :
          ents'[nextID + k].loc =
              <<0, 0, firstWallZ + k * gridSegmentLength - FrameTravel(currentFrameDelta')>>
    /\ lastGridSpawn' = FrameTravel(currentFrameDelta')
    /\ distanceTravelled' = FrameTravel(currentFrameDelta')
    /\ gameState' = IF frameHit' THEN gameStatePlayerDied ELSE gameStatePlaying

Named(n) == {i \in DOMAIN ents : ents[i].name = <<n, 0>>}

HMDLocations == {<<0, 0, 0>>, <<0, 1200, 100>>, <<-300, 1500, 0>>}

\* the handler only moved the anchor of W, to the ship's place plus the
\* head-relative offset
OnlyRecentered(W, w, hmdLoc) ==
    /\ ~w.faulted
    /\ w.gameState = W.gameState
    /\ DOMAIN w.ents = DOMAIN W.ents
    /\ \A i \in DOMAIN W.ents \ {W.playerID} : w.ents[i] = W.ents[i]
    /\ w.ents[W.playerID] =
          [W.ents[W.playerID] EXCEPT
              !.loc = Vec3Add(W.ents[W.shipID].loc,
                              <<0 - hmdLoc[1], 200 - hmdLoc[2], -500 - hmdLoc[3]>>)]
    /\ [w EXCEPT !.ents = W.ents] = W

\* the handler restarted the run of W and did not auto-level: every entity is
\* new and the anchor is where SetupScene puts it
Restarted(W, w, hmdLoc) ==
    /\ ~w.faulted
    /\ w.gameState = gameStatePlaying
    /\ DOMAIN w.ents \cap DOMAIN W.ents = {}
    /\ w.lastGridSpawn = 0 /\ w.distanceTravelled = 0
    /\ w.ents[w.playerID].loc = Vec3Add(w.ents[w.shipID].loc, <<0, 200, -250>>)
    /\ w.ents[w.playerID].loc # Vec3Add(w.ents[w.shipID].loc, HMDOffset(hmdLoc))

\* C16: the menu-button handler, run in any state the game reaches: while
\* Playing it moves the player anchor to the ship plus the head offset and
\* changes nothing else (not the game state, not the set of entities); while
\* PlayerDied it resets the scene and does not auto-level.
C16_MenuButton ==
    (pc = "loop" /\ ~faulted) =>
        \A hmdLoc \in HMDLocations :
            /\ gameState = gameStatePlaying
                  => OnlyRecentered(World, HandleMenuButtonInput(World, hmdLoc), hmdLoc)
            /\ gameState = gameStatePlayerDied
                  => Restarted(World, HandleMenuButtonInput(World, hmdLoc), hmdLoc)

\* C16 witness: the handler ran in a frame that began in PlayerDied and the
\* next frame's press, while Playing, ran it again
C16_Witness ==
    /\ pc = "loop" /\ ~faulted
    /\ gameState = gameStatePlaying
    /\ shipID > NumInitialWalls + 2
    /\ frames = MaxFrames
    /\ called = <<<<"OnAppMenuButtonL", 1>>>>
    /\ ents[playerID].loc = Vec3Add(ents[shipID].loc, HMDOffset(controller.hmd))

LeftCallbacks == {"OnAppMenuButtonL", "OnGripButtonL", "OnControllerAxisUpdateL"}

\* C17: every left callback invoked in an Update was invoked for the first
\* connected controller; the second controller never invokes one, whether or
\* not the matching right callback is set.
C17_LeftCallbacksFirstControllerOnly ==
    \A i \in 1..Len(called) : called[i][1] \in LeftCallbacks => called[i][2] = 1

\* where the player anchor is relative to the ship
AnchorOffset(E) ==
    <<E[playerID].loc[1] - E[shipID].loc[1],
      E[playerID].loc[2] - E[shipID].loc[2],
      E[playerID].loc[3] - E[shipID].loc[3]>>

\* a frame, begun while Playing and with the head where it was, in which the
\* ship controller moved the ship
ShipMovedFrame ==
    /\ gameState = gameStatePlaying
    /\ UpdateStep
    /\ ~faulted /\ ~faulted'
    /\ controller'.hmd = controller.hmd
    /\ ents'[shipID].loc # ents[shipID].loc

\* C18: after every frame in which the ship controller moved the ship while
\* Playing (head pose fixed), the anchor is at the ship's location plus the
\* offset that held before the frame, with the keyboard as with the VR
\* controller, and that offset is the one SetupScene established.
C18_AnchorFollowsShip ==
    [][ ShipMovedFrame =>
            /\ AnchorOffset(ents') = AnchorOffset(ents)
            /\ AnchorOffset(ents') = <<0, 200, -250>>
      ]_vars

\* an obstacle's place after one translation by this step's frame
TranslatedOnce(id) ==
    Vec3Add(PlaceBeforeScroll(id), <<0, 0, -FrameTravel(currentFrameDelta')>>)

\* C19: in an Update made while Playing, every entity that is in the collection
\* when the scroller starts (the ship and the anchor aside) is translated
\* exactly once, also the entities listed after one that crossed the cutoff;
\* what is removed is decided on the translated places of the whole collection
\* and the collection after the frame is the traversed one less those entities.
C19_DeferredRemoval ==
    [][ PlayingUpdateReturned =>
          /\ \A id \in Scrolled \cap DOMAIN ents' : ents'[id].loc = TranslatedOnce(id)
          /\ \A r \in Scrolled \ DOMAIN ents' : \A id \in Scrolled :
                id > r => \/ id \in DOMAIN ents' /\ ents'[id].loc = TranslatedOnce(id)
                          \/ id \notin DOMAIN ents' /\ TranslatedOnce(id)[3] < rearCutoff
          /\ DOMAIN ents' =
                (DOMAIN ents \cup (nextID..(nextID' - 1)))
                   \ {id \in Scrolled : TranslatedOnce(id)[3] < rearCutoff}
      ]_vars

\* C19 witness: in a frame of 1 s the first wall crossed the cutoff and was
\* removed; the wall listed after it was moved once, to exactly -200.0, and
\* stayed, as did the wall spawned in that frame
C19_Witness ==
    /\ frames = 2
    /\ currentFrameDelta = 1000
    /\ distanceTravelled = 237500
    /\ 1 \notin DOMAIN ents
    /\ 2 \in DOMAIN ents
    /\ ents[2].loc = <<0, 0, -200000>>
    /\ 12 \in DOMAIN ents
    /\ ents[12].loc = <<0, 0, spawnDistance - 25000>>

\* a step in which the entities' ScrollPastPlayer methods ran
ScrollStep == pc = "scroll" /\ frames' = frames + 1

\* how far entity id moved in this step
Displacement(id) ==
    <<ents'[id].loc[1] - ents[id].loc[1], ents'[id].loc[2] - ents[id].loc[2],
      ents'[id].loc[3] - ents[id].loc[3]>>

\* C21: the translation ScrollPastPlayer gives a bomb in a frame is the base
\* scroll (ship velocity * -frameDelta) plus cos(currentGameTime + x offset) *
\* frameDelta on x and sin(currentGameTime + y offset) * frameDelta on y and
\* nothing else; along z the bomb moves as far as a wall set does in that frame.
C21_BombScrollIsBasePlusWobble ==
    [][ ScrollStep =>
          \A b \in {id \in DOMAIN ents : ents[id].type = "BombEntity"} :
             /\ Displacement(b) =
                   <<Cos(currentGameTime + ents[b].movementCurveXOffset) * currentFrameDelta',
                     Sin(currentGameTime + ents[b].movementCurveYOffset) * currentFrameDelta',
                     -shipSpeedZ * currentFrameDelta'>>
             /\ \A w \in {id \in DOMAIN ents : ents[id].type = "WallSetEntity"} :
                   Displacement(b)[3] = Displacement(w)[3]
      ]_vars

\* C22: in every Update made while Playing that returns, the render system
\* draws the entities at the positions this same Update's simulation (spawn,
\* scroll, removals) produced, not at those of the previous tick.
C22_DrawsThisTicksPositions ==
    [][ PlayingUpdateReturned /\ pc = "loop" =>
            drawn' = [id \in DOMAIN ents' |-> ents'[id].loc]
      ]_vars

Abs(n) == IF n < 0 THEN -n ELSE n

\* the accumulator went from a to b in a frame with zero axis input whose decay
\* step is d: same sign or zero, no larger, and exactly 0 when d covers what
\* was left
DecayedTowardZero(a, b, d) ==
    /\ a >= 0 => b >= 0
    /\ a <= 0 => b <= 0
    /\ Abs(b) <= Abs(a)
    /\ IF d >= Abs(a) THEN b = 0 ELSE Abs(b) = Abs(a) - d

\* the last frame had no trackpad input and a positive frame delta
TrackpadReleased ==
    controller.axisX = 0 /\ controller.axisY = 0 /\ currentFrameDelta > 0

\* C23: in a frame with zero axis value the accumulator decays toward zero
\* without overshoot (sign kept, magnitude not increased, exactly 0 when the
\* decay step covers the rest); in a frame with axis input it stays within
\* [-maxAngle, +maxAngle]; and once the trackpad stays released with positive
\* frame deltas, both accumulators reach 0 and stay there.
C23_TrackpadDecay ==
    /\ [][ pc = "axis" =>
             /\ controller'.axisX = 0 =>
                   DecayedTowardZero(currentShipRoll, currentShipRoll',
                                     10 * currentFrameDelta')
             /\ controller'.axisY = 0 =>
                   DecayedTowardZero(currentShipPitch, currentShipPitch',
                                     10 * currentFrameDelta')
             /\ -maxRollRads <= currentShipRoll' /\ currentShipRoll' <= maxRollRads
             /\ -maxPitchRads <= currentShipPitch' /\ currentShipPitch' <= maxPitchRads
         ]_vars
    /\ (<>[]TrackpadReleased) => <>[](currentShipRoll = 0 /\ currentShipPitch = 0)

\* C23 witness: a frame of 0.25 s without input took the roll from its maximum
\* to 1500 and the pitch, which had less than the decay step left, to 0
C23_Witness ==
    /\ pc = "axis"
    /\ TrackpadReleased
    /\ currentFrameDelta = 250
    /\ currentShipRoll = 1500
    /\ currentShipPitch = 0

\* C24: once the collision pass of an Update has found its first intersecting
\* pair, it tests no further pair in that frame, neither of the same entity
\* nor of an entity visited later: so for the pass over any scene the game
\* reaches while Playing, under any geometry and any order of the traversal.
C24_ShortCircuit ==
    (pc = "loop" /\ ~faulted /\ gameState = gameStatePlaying) =>
        \A hits \in HitChoices(ents, shipID) : \A order \in ScanOrders(ents) :
            ~TestedAfterHit(ents, hits, shipID, playerID, order)

\* the grid floor entities of the scene
GridFloors == {i \in DOMAIN ents : ents[i].name[1] = "GridFloor"}

\* C25: in the scene with the grid floor, after any number of Update calls with
\* positive frame deltas, the floor is still in the scene (never removed) and
\* its z coordinate is within [-1, 0].
C25_GridFloorTreadmill ==
    pc = "floor" =>
        /\ GridFloors = {1}
        /\ -1000 <= ents[1].loc[3] /\ ents[1].loc[3] <= 0

\* an Update made while the run has ended and in which no callback reset it
DiedUpdate ==
    /\ gameState = gameStatePlayerDied
    /\ ~faulted
    /\ UpdateStep
    /\ shipID' = shipID

\* C26: while the state is PlayerDied no Update changes the ship's roll, pitch,
\* orientation or location, nor the player anchor's location, whatever keys
\* are held or the controller reports, with the keyboard input system as with
\* the VR input system; the VR button callbacks are still dispatched.
C26_ShipFrozenWhileDied ==
    [][ DiedUpdate =>
          /\ currentShipRoll' = currentShipRoll
          /\ currentShipPitch' = currentShipPitch
          /\ ents'[shipID].orient = ents[shipID].orient
          /\ ents'[shipID].loc = ents[shipID].loc
          /\ ents'[playerID].loc = ents[playerID].loc
          /\ (controller'.connected /\ controller'.menu
               /\ "OnAppMenuButtonL" \in callbacks) => called' # <<>>
      ]_vars

\* the wall segments of the scene
WallSegments == {i \in DOMAIN ents : ents[i].name[1] \in {"GridProto_pre", "GridProto_"}}

\* C27: from the initial scene on, after any sequence of Update calls with
\* positive frame deltas, the scene holds at most 17 wall segments, every one
\* of them between the cutoff at -200 and the spawn point at 212.5.
C27_BoundedCorridor ==
    /\ Cardinality(WallSegments) <= 17
    /\ \A i \in WallSegments :
          rearCutoff <= ents[i].loc[3] /\ ents[i].loc[3] <= spawnDistance

\* C27 witness: eight frames of 1.004 s and one of 0.251 s, all nine initial
\* walls still there, the first at -194.575, and eight spawned walls: 17
C27_Witness ==
    /\ frames = 9
    /\ frames < MaxCorridorFrames
    /\ gameState = gameStatePlaying
    /\ Cardinality(WallSegments) = 17
    /\ 1 \in DOMAIN ents
    /\ ents[1].loc = <<0, 0, -194575>>

\* C28: once SetupScene has succeeded, through every Update and wherever the
\* ship has been steered, the ship entity and the player anchor entity are in
\* the scene: the scroller's cleanup never removes them.
C28_ShipAndAnchorStay ==
    (pc = "loop" /\ ~setupErr) =>
        /\ shipID \in DOMAIN ents /\ ents[shipID].type = "ShipEntity"
        /\ playerID \in DOMAIN ents /\ playerID # shipID
        /\ ents[shipID].loc[3] >= rearCutoff

\* C28 witness: the cleanup has removed walls in a run of long frames in which
\* the ship was steered away from its start, and ship and anchor are there
C28_Witness ==
    /\ pc = "loop" /\ ~faulted
    /\ frames = MaxFrames
    /\ Cardinality(DOMAIN ents \ {shipID, playerID}) < NumInitialWalls
    /\ ents[shipID].loc[1] # 0
    /\ shipID \in DOMAIN ents /\ playerID \in DOMAIN ents

\* C29: an Update whose collision pass ends the run completes the transition
\* with whichever systems main has registered, also when no "UserInterface"
\* system is among them: the state is PlayerDied and Update has returned.
C29_TransitionCompletes ==
    [][ (gameState = gameStatePlaying /\ ~faulted /\ UpdateStep /\ frameHit') =>
          /\ gameState' = gameStatePlayerDied
          /\ ~faulted'
      ]_vars

\* a frame whose menu button press finds the run ended and the reset failing
FailedResetFrame == ResetFrame /\ ResetSceneFails(assets)

====
